---- MODULE Spec2Model ----
(***************************************************************************)
(* Model of src/vfs_esp32.h: the path-confining VFS shim of lwip-ftpd.     *)
(*                                                                         *)
(* A vfs_t holds two fixed-size char buffers (file1, file2) and two        *)
(* lengths (rootlen, cwdlen).  Buffers are modelled byte by byte as        *)
(* sequences of one-character strings; C index i is TLA+ index i+1.         *)
(* The external filesystem (stat, mkdir, ...) is modelled by its answer,   *)
(* chosen nondeterministically at every call.                               *)
(***************************************************************************)
EXTENDS Integers, Sequences, FiniteSets, TLC

VARIABLES
  file1,     \* vfs->file1
  file2,     \* vfs->file2
  rootlen,   \* vfs->rootlen
  cwdlen,    \* vfs->cwdlen
  paths,     \* the paths the client of this session may send
  dirs,      \* the paths stat may report as directories (AnyPath: all)
  op,        \* the call that has just returned, "none" once the caller moved on
  args,      \* its path arguments
  resolved,  \* what each abspath_ of that call returned, in call order
  fscalls,   \* the filesystem primitives that call invoked, in order
  answers,   \* whether each of them reported success (stat: a directory)
  ret,       \* its return value
  nbuf,      \* NormSpec: the buffer normalize_path works on
  nfirst,    \* NormSpec: the string after the first normalize_path
  ncalls     \* NormSpec: number of normalize_path calls made on nbuf

vars == <<file1, file2, rootlen, cwdlen, paths, dirs, op, args, resolved, fscalls,
          answers, ret, nbuf, nfirst, ncalls>>

sessionVars == <<file1, file2, rootlen, cwdlen, paths, dirs, op, args, resolved,
                 fscalls, answers, ret>>

normVars == <<nbuf, nfirst, ncalls>>

\* ------------------------------------------------------------------ bounds

\* CONFIG_FATFS_MAX_LFN comes from the build configuration (sdkconfig);
\* each buffer has CONFIG_FATFS_MAX_LFN+1 bytes (line 60).  Spec runs
\* the session with this value.
CONFIG_FATFS_MAX_LFN == 12

\* WideSpec runs the session with buffers of WIDE_MAX_LFN+1 bytes and the
\* longer paths the documentation walks through.
WIDE_MAX_LFN == 21

\* Fragments handed directly to normalize_path (NormSpec) have at most
\* this many characters.
MaxFragLen == 7

\* ------------------------------------------------------------- C strings

NUL == "NUL"
NULLPTR == -1

\* #define VFS_ROOT "/sdcard/"
VFS_ROOT == <<"/", "s", "d", "c", "a", "r", "d", "/">>

\* Characters a client path is built from.
PathChars == {"/", ".", "a"}

\* buffer[i]
At(b, i) == b[i + 1]

\* buffer[i] = c.  A store behind the end of the buffer is kept: the
\* sequence grows up to index i, so that a buffer overrun shows as a
\* buffer longer than its size.
Put(b, i, c) ==
  IF i < Len(b) THEN [b EXCEPT ![i + 1] = c]
  ELSE b \o SubSeq([k \in 1..(i - Len(b)) |-> c], 1, i - Len(b)) \o <<c>>

\* path[i] for a client string given without its terminator
PathAt(s, i) == IF i < Len(s) THEN s[i + 1] ELSE NUL

\* index of the first NUL at or after i (the scan strlen performs)
RECURSIVE strend(_, _)
strend(b, i) ==
  IF i >= Len(b) THEN Len(b)
  ELSE IF At(b, i) = NUL THEN i
  ELSE strend(b, i + 1)

strlen(b, i) == strend(b, i) - i

\* the C string that starts at b+i, without its terminator
CStr(b, i) == SubSeq(b, i + 1, strend(b, i))

\* everything up to the end of the buffer moved, the freed bytes zeroed
memmove_Whole(b, dst, src, n) ==
  SubSeq(b, 1, dst) \o SubSeq(b, src + 1, Len(b))
                   \o SubSeq([k \in 1..(src - dst) |-> NUL], 1, src - dst)

\* memmove(b+dst, b+src, n) inside one buffer (overlap allowed)
memmove(b, dst, src, n) ==
  SubSeq(b, 1, dst) \o SubSeq(b, src + 1, src + n) \o SubSeq(b, dst + n + 1, Len(b))

\* memcpy(b+dst, s+from, n) from a client string; the string's terminator
\* is the byte behind its last character
memcpy(b, dst, s, from, n) ==
  SubSeq(b, 1, dst) \o SubSeq(s \o <<NUL>>, from + 1, from + n)
                   \o SubSeq(b, dst + n + 1, Len(b))

\* memcpy(dstbuf, srcbuf, n) between the two buffers, both from index 0
bufcpy(dstbuf, srcbuf, n) ==
  SubSeq(srcbuf, 1, n) \o SubSeq(dstbuf, n + 1, Len(dstbuf))

\* memcmp(b+off, s, n) == 0
memcmp_eq(b, off, s, n) ==
  \A k \in 0..(n - 1) : At(b, off + k) = PathAt(s, k)

\* strstr(b+pos, <c1 c2>) for a two-character needle; NULLPTR if absent
RECURSIVE strstr(_, _, _, _)
strstr(b, pos, c1, c2) ==
  IF pos >= Len(b) \/ At(b, pos) = NUL THEN NULLPTR
  ELSE IF At(b, pos) = c1 /\ pos + 1 < Len(b) /\ At(b, pos + 1) = c2 THEN pos
  ELSE strstr(b, pos + 1, c1, c2)

\* strrchr(b+path, c); NULLPTR if absent
strrchr(b, path, c) ==
  LET hits == {i \in path..(strend(b, path) - 1) : At(b, i) = c}
  IN IF hits = {} THEN NULLPTR
     ELSE CHOOSE i \in hits : \A j \in hits : j <= i

\* -------------------------------------------------------- normalize_path

\* lines 106-107: strip leading '/' and leading "./"
RECURSIVE StripLeading(_, _)
StripLeading(b, path) ==
  IF At(b, path) = "/" \/ (At(b, path) = "." /\ At(b, path + 1) = "/")
    THEN StripLeading(memmove(b, path, path + 1, strlen(b, path + 1) + 1), path)
    ELSE b

\* lines 109-112: collapse every "//"
RECURSIVE CollapseSlashes(_, _)
CollapseSlashes(b, from) ==
  LET pos == strstr(b, from, "/", "/")
  IN IF pos = NULLPTR THEN b
     ELSE CollapseSlashes(memmove(b, pos, pos + 1, strlen(b, pos + 1) + 1), pos)

\* the "/.." branch without lines 125-126 (the slash behind ".." kept)
PopSegment_KeepSlash(b, path, pos) ==
  LET b1    == Put(b, pos, NUL)
      found == strrchr(b1, path, "/")
      slash == IF found = NULLPTR THEN path ELSE found
  IN [buf |-> memmove(b1, slash, pos + 3, strlen(b1, pos + 3) + 1),
      pos |-> slash]

\* the "/.." branch with strrchr searching the whole buffer
PopSegment_WholeBuffer(b, path, pos) ==
  LET b1    == Put(b, pos, NUL)
      found == strrchr(b1, 0, "/")
      slash == IF found = NULLPTR THEN path ELSE found
      pos1  == IF found = NULLPTR /\ At(b1, pos + 3) = "/" THEN pos + 1 ELSE pos
  IN [buf |-> memmove(b1, slash, pos1 + 3, strlen(b1, pos1 + 3) + 1),
      pos |-> slash]

\* lines 120-129: the "/.." branch; returns the buffer and the new pos
PopSegment(b, path, pos) ==
  LET b1    == Put(b, pos, NUL)
      found == strrchr(b1, path, "/")
      slash == IF found = NULLPTR THEN path ELSE found
      pos1  == IF found = NULLPTR /\ At(b1, pos + 3) = "/" THEN pos + 1 ELSE pos
  IN [buf |-> memmove(b1, slash, pos1 + 3, strlen(b1, pos1 + 3) + 1),
      pos |-> slash]

\* lines 114-133: resolve "/." and "/.." segments
RECURSIVE ResolveDots(_, _, _)
ResolveDots(b, path, from) ==
  LET pos == strstr(b, from, "/", ".")
  IN IF pos = NULLPTR THEN b
     ELSE IF At(b, pos) = "/" /\ At(b, pos + 1) = "/"
       THEN ResolveDots(memmove(b, pos, pos + 1, strlen(b, pos + 1) + 1), path, pos)
     ELSE IF At(b, pos + 2) = NUL \/ At(b, pos + 2) = "/"
       THEN ResolveDots(memmove(b, pos, pos + 2, strlen(b, pos + 2) + 1), path, pos)
     ELSE IF At(b, pos + 2) = "." /\ (At(b, pos + 3) = NUL \/ At(b, pos + 3) = "/")
       THEN LET r == PopSegment(b, path, pos) IN ResolveDots(r.buf, path, r.pos)
     ELSE ResolveDots(b, path, pos + 2)

\* normalize_path(b + path): rewrites the string that starts at index path
normalize_path(b, path) ==
  ResolveDots(CollapseSlashes(StripLeading(b, path), path), path, path)

\* -------------------------------------------------------------- abspath_

\* a NULL char* where a string is expected (no path contains this element)
NULLSTR == <<"NULL">>

\* what a resolve hands back: NULL, or the string now in the buffer
Returned(r) == IF r.ok THEN CStr(r.buf, 0) ELSE NULLSTR

\* only the length of the absolute path compared with the cwd's
RefusesAbsolute_LengthOnly(rl, cw, b, path) == Len(path) < cw - rl

\* lines 152-154: the test that refuses an absolute path which does not
\* point into the cwd (b is the buffer with the cwd's last slash restored)
RefusesAbsolute(rl, cw, b, path) ==
  \/ Len(path) < cw - rl
  \/ ~memcmp_eq(b, rl - 1, path, cw - rl)
  \/ (PathAt(path, cw - rl) # NUL /\ PathAt(path, cw - rl) # "/")

\* the capacity test without room for the terminator
TooLong_NoTerminator(buflen, cw, len) == buflen < cw + len

\* line 138: the result (cwd, path and terminator) would not fit
TooLong(buflen, cw, len) == buflen < cw + len + 1

\* abspath_(vfs, buffer, buflen, path, limit_to_cwd), lines 136-176.
\* ok = FALSE is the NULL return; buf is the buffer as the call leaves it.
abspath_(rl, cw, buffer, buflen, path, limit_to_cwd) ==
  LET len == Len(path)
      b0  == Put(buffer, cw - 1, "/")
  IN IF TooLong(buflen, cw, len)
       THEN [ok |-> FALSE, buf |-> buffer]
     ELSE IF PathAt(path, 0) = "/"
       THEN IF limit_to_cwd
              THEN IF RefusesAbsolute(rl, cw, b0, path)
                     THEN [ok |-> FALSE, buf |-> b0]
                     ELSE [ok |-> TRUE,
                           buf |-> normalize_path(
                                     memcpy(b0, cw - 1, path, cw - rl, len - (cw - rl) + 1),
                                     cw)]
              ELSE [ok |-> TRUE,
                    buf |-> normalize_path(memcpy(b0, rl - 1, path, 0, len + 1), rl)]
     ELSE [ok |-> TRUE,
           buf |-> normalize_path(memcpy(b0, cw, path, 0, len + 1),
                                  IF limit_to_cwd THEN cw ELSE rl)]

\* the path resolved against the root, not the cwd
abspath_AtRoot(rl, cw, f1, path) == abspath_(rl, rl, f1, Len(f1), path, TRUE)

\* limit_to_cwd passed as false
abspath_Unlimited(rl, cw, f1, path) == abspath_(rl, cw, f1, Len(f1), path, FALSE)

\* abspath: into file1, limit_to_cwd = true (lines 178-180)
abspath(rl, cw, f1, path) == abspath_(rl, cw, f1, Len(f1), path, TRUE)

\* abspath2: into file2, limit_to_cwd = true (lines 182-184)
abspath2(rl, cw, f2, path) == abspath_(rl, cw, f2, Len(f2), path, TRUE)

\* one call of an external filesystem primitive
FsCall(fn, pathargs) == [fn |-> fn, args |-> pathargs]

\* ---------------------------------------------------------------- vfs_chdir

\* the rollback left out: file1 keeps the rejected candidate
RestoreCwd_Skipped(f1, f2, cw) == f1

\* lines 197-198 and 216-217: put the committed cwd back into file1
RestoreCwd(f1, f2, cw) == Put(bufcpy(f1, f2, cw), cw, NUL)

\* the result of a vfs_chdir that returns 1: vfs->cwdlen and file2 as before
ChdirFailed(b, f2, cw, returned, calls) ==
  [file1 |-> b, file2 |-> f2, cwdlen |-> cw, ret |-> 1,
   resolved |-> <<returned>>, fscalls |-> calls]

\* the commit without the copy into file2 (line 212)
ChdirCommit_NoCopy(b, len, f2, returned, calls) ==
  [file1 |-> b, file2 |-> f2, cwdlen |-> len, ret |-> 0,
   resolved |-> <<returned>>, fscalls |-> calls]

\* lines 210-213: commit the candidate b (len bytes and a terminator)
ChdirCommit(b, len, f2, returned, calls) ==
  [file1 |-> b, file2 |-> bufcpy(f2, b, len + 1), cwdlen |-> len, ret |-> 0,
   resolved |-> <<returned>>, fscalls |-> calls]

\* the decision left to stat alone
ChdirDecide_StatOnly(b, len, f2, rl, cw, isdir, returned, calls) ==
  IF isdir
    THEN ChdirCommit(Put(b, len - 1, "/"), len, f2, returned, calls)
    ELSE ChdirFailed(RestoreCwd(b, f2, cw), f2, cw, returned, calls)

\* lines 209-219: b is file1 with the candidate's last slash replaced by
\* the terminator, which makes it the path stat sees
ChdirDecide(b, len, f2, rl, cw, isdir, returned, calls) ==
  IF len = rl \/ isdir
    THEN ChdirCommit(Put(b, len - 1, "/"), len, f2, returned, calls)
    ELSE ChdirFailed(RestoreCwd(b, f2, cw), f2, cw, returned, calls)

\* lines 207-209: file1[len-1] = 0, then stat unless len == rootlen
ChdirStat(b, len, f2, rl, cw, isdir, returned) ==
  ChdirDecide(Put(b, len - 1, NUL), len, f2, rl, cw, isdir, returned,
              IF len = rl THEN <<>>
              ELSE <<FsCall("stat", <<CStr(Put(b, len - 1, NUL), 0)>>)>>)

\* the separator append without its room check: the separator and the
\* terminator are stored wherever the resolved path ends
ChdirAppendSlash_NoRoomCheck(b, len0, f2, rl, cw, isdir, returned) ==
  IF At(b, len0 - 1) # "/"
    THEN ChdirStat(Put(Put(b, len0, "/"), len0 + 1, NUL), len0 + 1,
                   f2, rl, cw, isdir, returned)
    ELSE ChdirStat(b, len0, f2, rl, cw, isdir, returned)

\* lines 193-205: b is file1 holding the resolved path of length len0
ChdirAppendSlash(b, len0, f2, rl, cw, isdir, returned) ==
  IF At(b, len0 - 1) # "/"
    THEN IF len0 + 2 >= Len(b)
           THEN ChdirFailed(RestoreCwd(b, f2, cw), f2, cw, returned, <<>>)
           ELSE ChdirStat(Put(Put(b, len0, "/"), len0 + 1, NUL), len0 + 1,
                          f2, rl, cw, isdir, returned)
    ELSE ChdirStat(b, len0, f2, rl, cw, isdir, returned)

\* lines 190-193: r is what abspath_ produced
ChdirResolved(r, f2, rl, cw, isdir) ==
  IF ~r.ok
    THEN ChdirFailed(r.buf, f2, cw, NULLSTR, <<>>)
    ELSE ChdirAppendSlash(r.buf, strlen(r.buf, 0), f2, rl, cw, isdir, Returned(r))

\* true passed as abspath_'s last argument
vfs_chdir_Limited(f1, f2, rl, cw, path, isdir) ==
  ChdirResolved(abspath_(rl, cw, f1, Len(f1), path, TRUE), f2, rl, cw, isdir)

\* vfs_chdir, lines 186-220.  isdir is the answer of
\* stat(path) == 0 && S_ISDIR(st.st_mode) when it is asked.
vfs_chdir(f1, f2, rl, cw, path, isdir) ==
  ChdirResolved(abspath_(rl, cw, f1, Len(f1), path, FALSE), f2, rl, cw, isdir)

\* ------------------------------------------------------------ the facade

\* the primitive called although the resolve returned NULL
Delegate_Unchecked(r, fn) ==
  [file1 |-> r.buf, called |-> TRUE,
   resolved |-> <<Returned(r)>>,
   fscalls |-> <<FsCall(fn, <<CStr(r.buf, 0)>>)>>]

\* The single-path operations share one shape: the primitive fn is called
\* only if the resolve r returned non-NULL ("path && fn(path) ...").
Delegate(r, fn) ==
  [file1 |-> r.buf, called |-> r.ok,
   resolved |-> <<Returned(r)>>,
   fscalls |-> IF r.ok THEN <<FsCall(fn, <<CStr(r.buf, 0)>>)>> ELSE <<>>]

\* the value returned: ok if the primitive was called and succeeded
Outcome(c, fsok, ok, failed) ==
  [file1 |-> c.file1, resolved |-> c.resolved, fscalls |-> c.fscalls,
   answers |-> IF c.called THEN <<fsok>> ELSE <<>>,
   ret |-> IF c.called /\ fsok THEN ok ELSE failed]

\* vfs_mkdir, lines 222-225
vfs_mkdir(f1, rl, cw, path, fsok) ==
  Outcome(Delegate(abspath(rl, cw, f1, path), "mkdir"), fsok, 0, 1)

\* vfs_rmdir, lines 227-230
vfs_rmdir(f1, rl, cw, path, fsok) ==
  Outcome(Delegate(abspath(rl, cw, f1, path), "rmdir"), fsok, 0, 1)

\* vfs_remove, lines 232-235
vfs_remove(f1, rl, cw, path, fsok) ==
  Outcome(Delegate(abspath(rl, cw, f1, path), "unlink"), fsok, 0, 1)

\* line 241: rename() returns non-zero on failure, so
\* "from && to && rename(from, to) ? 1 : 0" is 1 only when both resolves
\* succeeded and the primitive failed.
RenameResolved(r1, r2, fsok) ==
  [file1 |-> r1.buf, file2 |-> r2.buf,
   resolved |-> <<Returned(r1), Returned(r2)>>,
   fscalls |-> IF r1.ok /\ r2.ok
                 THEN <<FsCall("rename", <<CStr(r1.buf, 0), CStr(r2.buf, 0)>>)>>
                 ELSE <<>>,
   answers |-> IF r1.ok /\ r2.ok THEN <<fsok>> ELSE <<>>,
   ret |-> IF r1.ok /\ r2.ok /\ ~fsok THEN 1 ELSE 0]

\* both paths resolved into file1, the second over the first
vfs_rename_OneBuffer(f1, f2, rl, cw, from, to, fsok) ==
  LET r1 == abspath(rl, cw, f1, from)
      r2 == abspath(rl, cw, r1.buf, to)
  IN RenameResolved([ok |-> r1.ok, buf |-> r2.buf], [ok |-> r2.ok, buf |-> f2], fsok)

\* vfs_rename, lines 237-242
vfs_rename(f1, f2, rl, cw, from, to, fsok) ==
  RenameResolved(abspath(rl, cw, f1, from), abspath2(rl, cw, f2, to), fsok)

\* the trailing slash cut whatever the cwd is
GetcwdCut_Always(f1, rl, cw) == Put(f1, cw - 1, NUL)

\* lines 247-252: where vfs_getcwd cuts file1
GetcwdCut(f1, rl, cw) ==
  IF cw > rl THEN Put(f1, cw - 1, NUL) ELSE Put(f1, cw, NUL)

\* vfs_getcwd, lines 244-254: the string strdup copies, and file1 after
vfs_getcwd(f1, rl, cw) ==
  [file1 |-> GetcwdCut(f1, rl, cw), ret |-> CStr(GetcwdCut(f1, rl, cw), rl - 1)]

\* vfs_open, lines 256-261: NULL, or whatever fopen returns
vfs_open(f1, rl, cw, path, fsok) ==
  Outcome(Delegate(abspath(rl, cw, f1, path), "fopen"), fsok, "FILE", "NULL")

\* vfs_stat, lines 263-273
vfs_stat(f1, rl, cw, path, fsok) ==
  Outcome(Delegate(abspath(rl, cw, f1, path), "stat"), fsok, 0, -1)

\* vfs_opendir, lines 275-280
vfs_opendir(f1, rl, cw, path, fsok) ==
  Outcome(Delegate(abspath(rl, cw, f1, path), "opendir"), fsok, "DIR", "NULL")

\* ------------------------------------------------------------ the inputs

\* all strings over S of length at most n
StringsUpTo(S, n) == UNION {[1..k -> S] : k \in 0..n}

\* n times the character c
Repeat(c, n) == SubSeq([i \in 1..n |-> c], 1, n)

\* the client paths of Spec: "", the one-character paths, and
\* "..", "/a", "a/", "/b"
ClientPaths ==
  StringsUpTo(PathChars, 1)
    \cup {<<".", ".">>, <<"/", "a">>, <<"a", "/">>, <<"/", "b">>}

\* the longer client paths the documentation walks through
ScenarioPaths ==
  { <<"a">>,
    <<"/", "b">>,                                            \* /b
    <<"/", "a", "a">>,                                       \* /aa
    <<".", ".", "/", "a">>,                                  \* ../a
    <<".", ".", "/", ".", ".", "/", "a">>,                   \* ../../a
    <<"/", "a", "/", "a">>,                                  \* /a/a
    VFS_ROOT \o <<"a", "/", "a">> }                          \* /sdcard/a/a

\* vfs_rename is called with source and destination among these
RenamePaths == {<<"a">>, <<"/", "a">>, <<".", ".">>, <<"/", "b">>}

\* in dirs: stat may report any path as a directory
AnyPath == <<"*">>

\* the one directory the documented scenarios assume below the root
ScenarioDirs == {VFS_ROOT \o <<"a">>}

\* what malloc'ed memory may hold where vfs_openfs has not written
Indeterminate == {NUL, "/"}

\* ------------------------------------------------------------- the session

\* vfs_openfs, lines 87-95 (the malloc succeeded): both buffers hold
\* VFS_ROOT and its terminator; the bytes behind it are whatever malloc
\* returned.  size is sizeof(vfs->file1) == sizeof(vfs->file2).
vfs_openfs(size, junk) ==
  [file1   |-> VFS_ROOT \o <<NUL>> \o Repeat(junk, size - Len(VFS_ROOT) - 1),
   file2   |-> VFS_ROOT \o <<NUL>> \o Repeat(junk, size - Len(VFS_ROOT) - 1),
   rootlen |-> Len(VFS_ROOT),
   cwdlen  |-> Len(VFS_ROOT)]

NormIdle == nbuf = <<NUL>> /\ nfirst = <<>> /\ ncalls = 0

\* a session right after vfs_openfs
Opened(size, junk) ==
  LET v == vfs_openfs(size, junk)
  IN /\ file1 = v.file1
     /\ file2 = v.file2
     /\ rootlen = v.rootlen
     /\ cwdlen = v.cwdlen
     /\ op = "vfs_openfs"
     /\ args = <<>>
     /\ resolved = <<>>
     /\ fscalls = <<>>
     /\ answers = <<>>
     /\ ret = 0

Init ==
  /\ \E junk \in Indeterminate : Opened(CONFIG_FATFS_MAX_LFN + 1, junk)
  /\ paths = ClientPaths
  /\ dirs = {AnyPath}
  /\ NormIdle

\* The session is single-threaded: a call is made only after the caller
\* has taken the result of the previous one.
Callable == op \in {"none", "vfs_openfs"}

\* the part every single-path facade action shares
Facade1(name, r, p) ==
  /\ file1' = r.file1
  /\ op' = name
  /\ args' = <<p>>
  /\ resolved' = r.resolved
  /\ fscalls' = r.fscalls
  /\ answers' = r.answers
  /\ ret' = r.ret
  /\ UNCHANGED <<file2, rootlen, cwdlen, paths, dirs>>
  /\ UNCHANGED normVars

\* the session after a vfs_chdir(p) that produced r
ChdirStep(r, p) ==
  /\ file1' = r.file1
  /\ file2' = r.file2
  /\ cwdlen' = r.cwdlen
  /\ op' = "vfs_chdir"
  /\ args' = <<p>>
  /\ resolved' = r.resolved
  /\ fscalls' = r.fscalls
  /\ ret' = r.ret
  /\ UNCHANGED <<rootlen, paths, dirs>>
  /\ UNCHANGED normVars

\* stat may report a directory for the path it is asked about
MayBeDir(calls) ==
  IF AnyPath \in dirs \/ calls = <<>>
    THEN TRUE
    ELSE calls[1].args[1] \in dirs

\* vfs_chdir(p) produced r with stat answering isdir
ChdirTry(r, p, isdir) ==
  /\ isdir => MayBeDir(r.fscalls)
  /\ ChdirStep(r, p)
  /\ answers' = IF r.fscalls = <<>> THEN <<>> ELSE <<isdir>>

Chdir ==
  /\ Callable
  /\ \E p \in paths, isdir \in BOOLEAN :
       ChdirTry(vfs_chdir(file1, file2, rootlen, cwdlen, p, isdir), p, isdir)

Mkdir ==
  /\ Callable
  /\ \E p \in paths, fsok \in BOOLEAN :
       Facade1("vfs_mkdir", vfs_mkdir(file1, rootlen, cwdlen, p, fsok), p)

Rmdir ==
  /\ Callable
  /\ \E p \in paths, fsok \in BOOLEAN :
       Facade1("vfs_rmdir", vfs_rmdir(file1, rootlen, cwdlen, p, fsok), p)

Remove ==
  /\ Callable
  /\ \E p \in paths, fsok \in BOOLEAN :
       Facade1("vfs_remove", vfs_remove(file1, rootlen, cwdlen, p, fsok), p)

\* the session after a vfs_rename(from, to) that produced r
RenameStep(r, from, to) ==
  /\ file1' = r.file1
  /\ file2' = r.file2
  /\ op' = "vfs_rename"
  /\ args' = <<from, to>>
  /\ resolved' = r.resolved
  /\ fscalls' = r.fscalls
  /\ answers' = r.answers
  /\ ret' = r.ret
  /\ UNCHANGED <<rootlen, cwdlen, paths, dirs>>
  /\ UNCHANGED normVars

Rename ==
  /\ Callable
  /\ \E from \in paths \cap RenamePaths, to \in paths \cap RenamePaths,
        fsok \in BOOLEAN :
       RenameStep(vfs_rename(file1, file2, rootlen, cwdlen, from, to, fsok),
                  from, to)

\* the session after a vfs_getcwd that produced r
GetcwdStep(r) ==
  /\ file1' = r.file1
  /\ ret' = r.ret
  /\ op' = "vfs_getcwd"
  /\ args' = <<>>
  /\ resolved' = <<>>
  /\ fscalls' = <<>>
  /\ answers' = <<>>
  /\ UNCHANGED <<file2, rootlen, cwdlen, paths, dirs>>
  /\ UNCHANGED normVars

Getcwd ==
  /\ Callable
  /\ GetcwdStep(vfs_getcwd(file1, rootlen, cwdlen))

Open ==
  /\ Callable
  /\ \E p \in paths, fsok \in BOOLEAN :
       Facade1("vfs_open", vfs_open(file1, rootlen, cwdlen, p, fsok), p)

Stat ==
  /\ Callable
  /\ \E p \in paths, fsok \in BOOLEAN :
       Facade1("vfs_stat", vfs_stat(file1, rootlen, cwdlen, p, fsok), p)

Opendir ==
  /\ Callable
  /\ \E p \in paths, fsok \in BOOLEAN :
       Facade1("vfs_opendir", vfs_opendir(file1, rootlen, cwdlen, p, fsok), p)

\* The caller (ftpd) has used the result of the call; the session itself
\* is untouched.
Return ==
  /\ ~Callable
  /\ op' = "none"
  /\ args' = <<>>
  /\ resolved' = <<>>
  /\ fscalls' = <<>>
  /\ answers' = <<>>
  /\ ret' = 0
  /\ UNCHANGED <<file1, file2, rootlen, cwdlen, paths, dirs>>
  /\ UNCHANGED normVars

Next ==
  \/ Chdir
  \/ Mkdir
  \/ Rmdir
  \/ Remove
  \/ Rename
  \/ Getcwd
  \/ Open
  \/ Stat
  \/ Opendir
  \/ Return

Spec == Init /\ [][Next]_vars

\* The same session with wide buffers, the documented paths and the
\* documented directory.
WideInit ==
  /\ \E junk \in Indeterminate : Opened(WIDE_MAX_LFN + 1, junk)
  /\ paths = ScenarioPaths
  /\ dirs = ScenarioDirs
  /\ NormIdle

WideSpec == WideInit /\ [][Next]_vars

\* ------------------------------------------- normalize_path on its own

\* every fragment over PathChars, NUL-terminated, in a buffer of
\* MaxFragLen+1 bytes whose tail behind the terminator is indeterminate
\* (DocFragment fills its buffer)
Fragments == StringsUpTo(PathChars, MaxFragLen)

FragmentBuffer(p, junk) == p \o <<NUL>> \o Repeat(junk, MaxFragLen - Len(p))

\* the fragment the documentation normalises: "./a//b/./c"
DocFragment == <<".", "/", "a", "/", "/", "b", "/", ".", "/", "c">>

NormInit ==
  /\ Opened(CONFIG_FATFS_MAX_LFN + 1, NUL)
  /\ paths = {}
  /\ dirs = {}
  /\ \E p \in Fragments \cup {DocFragment}, junk \in Indeterminate :
       nbuf = FragmentBuffer(p, junk)
  /\ nfirst = <<>>
  /\ ncalls = 0

\* normalize_path is applied to the same buffer at most this often
MaxNormCalls == 2

\* normalize_path(nbuf)
Normalize ==
  /\ ncalls < MaxNormCalls
  /\ nbuf' = normalize_path(nbuf, 0)
  /\ nfirst' = IF ncalls = 0 THEN CStr(nbuf', 0) ELSE nfirst
  /\ ncalls' = ncalls + 1
  /\ UNCHANGED sessionVars

NormNext == Normalize

NormSpec == NormInit /\ [][NormNext]_vars

\* ---------------------------------------------------------------- claims

\* the calls that resolve with limit_to_cwd = true
ClientFacing == {"vfs_mkdir", "vfs_rmdir", "vfs_remove", "vfs_rename",
                 "vfs_stat", "vfs_open", "vfs_opendir"}

\* every call that resolves a path
Resolving == ClientFacing \cup {"vfs_chdir"}

\* the segments of s, split at every "/"
RECURSIVE Split(_)
Split(s) ==
  IF \A i \in 1..Len(s) : s[i] # "/" THEN <<s>>
  ELSE LET k == CHOOSE i \in 1..Len(s) :
                  s[i] = "/" /\ \A j \in 1..(i - 1) : s[j] # "/"
       IN <<SubSeq(s, 1, k - 1)>> \o Split(SubSeq(s, k + 1, Len(s)))

\* walking segs[i..] from d levels below the start climbs above the start
RECURSIVE Climbs(_, _, _)
Climbs(segs, i, d) ==
  IF i > Len(segs) THEN FALSE
  ELSE IF segs[i] = <<".", ".">> THEN d = 0 \/ Climbs(segs, i + 1, d - 1)
  ELSE IF segs[i] = <<>> \/ segs[i] = <<".">> THEN Climbs(segs, i + 1, d)
  ELSE Climbs(segs, i + 1, d + 1)

IsPrefix(pre, s) == Len(pre) <= Len(s) /\ SubSeq(s, 1, Len(pre)) = pre

\* p lexically denotes a location at or below VFS_ROOT
AtOrBelowRoot(p) ==
  /\ IsPrefix(VFS_ROOT, p)
  /\ ~Climbs(Split(SubSeq(p, Len(VFS_ROOT) + 1, Len(p))), 1, 0)

\* the committed cwd: file2 keeps its bytes in front of the last separator
CommittedCwd == SubSeq(file2, 1, cwdlen - 1) \o <<"/">>

\* C1 (as claimed): whenever a client-facing resolve succeeds, the path it
\* returns lexically denotes a location at or below the root.
C1_ResolveConfined ==
  op \in ClientFacing =>
    \A i \in DOMAIN resolved :
      resolved[i] # NULLSTR => AtOrBelowRoot(resolved[i])

\* C2 (as claimed): the committed cwd is an absolute path with trailing
\* separator inside the root subtree: it starts with the root prefix, has
\* no ".." segment behind it, and a successful vfs_chdir leaves it
\* separator-terminated in both buffers.
C2_CwdConfined ==
  /\ cwdlen >= rootlen
  /\ IsPrefix(VFS_ROOT, CommittedCwd)
  /\ \A i \in 1..Len(Split(SubSeq(CommittedCwd, rootlen + 1, cwdlen))) :
       Split(SubSeq(CommittedCwd, rootlen + 1, cwdlen))[i] # <<".", ".">>
  /\ (op = "vfs_chdir" /\ ret = 0) =>
       /\ SubSeq(file1, 1, cwdlen) = CommittedCwd
       /\ SubSeq(file2, 1, cwdlen) = CommittedCwd

\* what vfs_getcwd would return in the current state
GetcwdValue == vfs_getcwd(file1, rootlen, cwdlen).ret

\* C3: a vfs_chdir that fails leaves cwdlen unchanged and leaves vfs_getcwd
\* returning exactly the value it returned before the call.
C3_ChdirAtomic ==
  [][(op' = "vfs_chdir" /\ ret' = 1) =>
       (cwdlen' = cwdlen /\ GetcwdValue' = GetcwdValue)]_vars

\* C3 witness: a vfs_chdir failed after stat was asked about a candidate
\* other than the committed cwd, from a cwd below the root.
C3_Witness ==
  /\ op = "vfs_chdir" /\ ret = 1
  /\ cwdlen > rootlen
  /\ fscalls # <<>>
  /\ fscalls[1].args[1] # SubSeq(CommittedCwd, 1, cwdlen - 1)

\* C4 (as claimed): vfs_rename returns non-zero whenever the source or the
\* destination fails to resolve, and then rename is not called.
C4_RenameReportsFailure ==
  (op = "vfs_rename" /\ (resolved[1] = NULLSTR \/ resolved[2] = NULLSTR)) =>
    (ret # 0 /\ fscalls = <<>>)

\* C5: in every operation that resolves a path, if a resolve fails then no
\* filesystem primitive is invoked during that operation.
C5_RejectedNeverReachesFs ==
  (op \in Resolving /\ \E i \in DOMAIN resolved : resolved[i] = NULLSTR) =>
    fscalls = <<>>

\* C5 witness: vfs_rename resolved its source, failed to resolve its
\* destination and called nothing.
C5_Witness ==
  /\ op = "vfs_rename"
  /\ resolved[1] # NULLSTR /\ resolved[2] = NULLSTR
  /\ fscalls = <<>>

\* the cwd as the client sees it, without trailing separator ("" at the root)
VirtualCwd == SubSeq(file2, rootlen, cwdlen - 1)

\* the absolute client path p names the virtual cwd vc or something below it
PointsInto(vc, p) ==
  /\ IsPrefix(vc, p)
  /\ Len(p) = Len(vc) \/ p[Len(vc) + 1] = "/"

\* the buffer the i-th resolve of a client-facing call works in
ResolveBuffer(i) == IF i = 1 THEN file1 ELSE file2

SubCwd == VFS_ROOT \o <<"a", "/">>

\* C6: under limit_to_cwd = true an absolute client path that fits the
\* buffer is accepted iff the cwd beyond the root is a prefix of it and the
\* next character is end-of-string or "/"; otherwise the resolve returns
\* NULL and the cwd prefix in the buffer is intact.  "/b" with cwd
\* <root>a/ is refused.
C6_AbsoluteAcceptance ==
  op \in ClientFacing =>
    \A i \in DOMAIN args :
      (args[i] # <<>> /\ args[i][1] = "/"
         /\ cwdlen + Len(args[i]) + 1 <= Len(ResolveBuffer(i))) =>
        /\ resolved[i] # NULLSTR <=> PointsInto(VirtualCwd, args[i])
        /\ resolved[i] = NULLSTR =>
             SubSeq(ResolveBuffer(i), 1, cwdlen) = CommittedCwd
        /\ (CommittedCwd = SubCwd /\ args[i] = <<"/", "b">>) =>
             resolved[i] = NULLSTR

\* C6 witness: "/aa" arrives while the cwd is <root>a/ and is refused
\* (the cwd's name is a prefix, the next character is no separator).
C6_Witness ==
  /\ op \in ClientFacing
  /\ CommittedCwd = SubCwd
  /\ args[1] = <<"/", "a", "a">>
  /\ resolved[1] = NULLSTR

RealPathInSub == VFS_ROOT \o <<"a", "/", "a">>

\* C7 (as claimed): with cwd <root>a/ the absolute client path
\* "/sdcard/a/a" resolves to "/sdcard/a/a".
C7_RealPathAccepted ==
  (op \in ClientFacing /\ CommittedCwd = SubCwd) =>
    \A i \in DOMAIN args :
      args[i] = RealPathInSub => resolved[i] = RealPathInSub

\* C7 (amended): with cwd <root>a/ the absolute client path "/a/a" (the
\* file's path below the virtual root, as vfs_getcwd reports the cwd)
\* resolves to "/sdcard/a/a"; the full real path "/sdcard/a/a" is refused.
C7_VirtualPathAccepted ==
  (op \in ClientFacing /\ CommittedCwd = SubCwd) =>
    \A i \in DOMAIN args :
      /\ args[i] = <<"/", "a", "/", "a">> => resolved[i] = RealPathInSub
      /\ args[i] = RealPathInSub => resolved[i] = NULLSTR

\* C7 witness: "/a/a" resolved with cwd <root>a/.
C7_Witness ==
  /\ op \in ClientFacing
  /\ CommittedCwd = SubCwd
  /\ args[1] = <<"/", "a", "/", "a">>
  /\ resolved[1] = RealPathInSub

\* C8 (as claimed): "../a" with cwd <root>a/ resolves to <root>a (the
\* parent's entry a); "../../a" with cwd = root resolves to <root>a.
C8_ParentRelative ==
  op \in ClientFacing =>
    \A i \in DOMAIN args :
      /\ (CommittedCwd = SubCwd /\ args[i] = <<".", ".", "/", "a">>) =>
           resolved[i] = VFS_ROOT \o <<"a">>
      /\ (CommittedCwd = VFS_ROOT /\ args[i] = <<".", ".", "/", ".", ".", "/", "a">>) =>
           resolved[i] = VFS_ROOT \o <<"a">>

\* C8 (amended): "../a" with cwd <root>a/ does not resolve to <root>a: the
\* resolve succeeds and the path it returns still begins with the cwd
\* <root>a/; "../../a" with cwd = root returns <root>a.
C8_CwdPrefixKept ==
  op \in ClientFacing =>
    \A i \in DOMAIN args :
      /\ (CommittedCwd = SubCwd /\ args[i] = <<".", ".", "/", "a">>) =>
           resolved[i] # NULLSTR /\ IsPrefix(SubCwd, resolved[i])
      /\ (CommittedCwd = VFS_ROOT /\ args[i] = <<".", ".", "/", ".", ".", "/", "a">>) =>
           resolved[i] = VFS_ROOT \o <<"a">>

\* C8 witness: "../a" resolved with cwd <root>a/ and the call went to the
\* filesystem with a path that begins with the cwd.
C8_Witness ==
  /\ op \in ClientFacing
  /\ CommittedCwd = SubCwd
  /\ args[1] = <<".", ".", "/", "a">>
  /\ fscalls # <<>>
  /\ IsPrefix(SubCwd, fscalls[1].args[1])

\* C9: vfs_getcwd never returns an empty string: "/" when the cwd is the
\* root, otherwise the committed cwd from the root's last separator on,
\* without its trailing separator.
C9_GetcwdValue ==
  op = "vfs_getcwd" =>
    /\ ret # <<>>
    /\ cwdlen = rootlen => ret = <<"/">>
    /\ cwdlen > rootlen => ret = SubSeq(CommittedCwd, rootlen, cwdlen - 1)

\* C9 witness: vfs_getcwd returned at the root while file1 still held the
\* remains of an earlier resolve.
C9_Witness ==
  /\ op = "vfs_getcwd"
  /\ cwdlen = rootlen
  /\ At(file1, cwdlen + 1) \in PathChars

\* C10 (as claimed): normalize_path applied to its own output changes nothing.
C10_NormalizeIdempotent ==
  ncalls = 2 => CStr(nbuf, 0) = nfirst

\* the segments of a path that are names: not empty, not "." and not ".."
Ordinary(segs) ==
  SelectSeq(segs, LAMBDA g : g # <<>> /\ g # <<".">> /\ g # <<".", ".">>)

\* s is t with some elements left out
RECURSIVE IsSubseq(_, _)
IsSubseq(s, t) ==
  IF s = <<>> THEN TRUE
  ELSE IF t = <<>> THEN FALSE
  ELSE IF Head(s) = Head(t) THEN IsSubseq(Tail(s), Tail(t))
  ELSE IsSubseq(s, Tail(t))

\* out is a minimal slash-clean form of the fragment in
SlashClean(in, out) ==
  /\ out = <<>> \/ out[1] # "/"
  /\ \A i \in 1..(Len(out) - 1) : ~(out[i] = "/" /\ out[i + 1] = "/")
  /\ \A i \in 1..Len(Split(out)) :
       Split(out)[i] # <<".">> /\ Split(out)[i] # <<".", ".">>
  /\ IsSubseq(Ordinary(Split(out)), Ordinary(Split(in)))
  /\ in = DocFragment => out = <<"a", "/", "b", "/", "c">>

\* C11 (as claimed): normalize_path leaves the fragment without leading
\* "/", without "//" and without a "." or ".." segment, its ordinary
\* segments in their original order; "./a//b/./c" becomes "a/b/c".
C11_NormalizeClean ==
  [][ncalls' = ncalls + 1 => SlashClean(CStr(nbuf, 0), CStr(nbuf', 0))]_vars

\* the cwd relative to the root, with its trailing separator ("" at the root)
CwdBelowRoot == SubSeq(CommittedCwd, rootlen + 1, cwdlen)

\* the fragment vfs_chdir(p) normalises: p itself when absolute, else the
\* cwd below the root followed by p
ChdirFragment(p) == IF PathAt(p, 0) = "/" THEN p ELSE CwdBelowRoot \o p

\* normalize_path applied to s in a buffer of its own
Normalized(s) == CStr(normalize_path(s \o <<NUL>>, 0), 0)

\* s without one trailing separator
StripSlash(s) ==
  IF s # <<>> /\ s[Len(s)] = "/" THEN SubSeq(s, 1, Len(s) - 1) ELSE s

\* what the round trip is to return for a vfs_chdir(p) from this state
RoundTripValue(p) ==
  IF StripSlash(Normalized(ChdirFragment(p))) = <<>>
    THEN <<"/">>
    ELSE <<"/">> \o StripSlash(Normalized(ChdirFragment(p)))

C13_RootPrefixKept ==
  /\ SubSeq(file1, 1, rootlen) = VFS_ROOT
  /\ SubSeq(file2, 1, rootlen) = VFS_ROOT
  /\ op \in Resolving =>
       \A i \in DOMAIN resolved :
         resolved[i] # NULLSTR =>
           /\ IsPrefix(VFS_ROOT, resolved[i])
           /\ Len(resolved[i]) >= rootlen
           /\ op \in ClientFacing =>
                IsPrefix(SubSeq(CommittedCwd, 1, cwdlen - 1), resolved[i])

\* C13 witness: vfs_chdir("..") popped the one directory below the root and
\* committed the root itself.
C13_Witness ==
  /\ op = "vfs_chdir" /\ ret = 0
  /\ args[1] = <<".", ".">>
  /\ cwdlen = rootlen
  /\ resolved[1] = VFS_ROOT

\* sizeof(vfs->file1) == sizeof(vfs->file2) in Spec
Capacity == CONFIG_FATFS_MAX_LFN + 1

\* C14: rootlen keeps the value vfs_openfs gave it, both buffers keep their
\* size, and rootlen <= cwdlen <= capacity - 1.
C14_LengthInvariant ==
  /\ rootlen = Len(VFS_ROOT)
  /\ Len(file1) = Capacity /\ Len(file2) = Capacity
  /\ rootlen <= cwdlen
  /\ cwdlen <= Capacity - 1

\* C14 witness: vfs_chdir to a path that ends with a separator succeeded
\* and the new cwd fills the buffer up to its terminator.
C14_Witness ==
  /\ op = "vfs_chdir" /\ ret = 0
  /\ args[1] = <<"a", "/">>
  /\ cwdlen = Capacity - 1
  /\ At(file1, cwdlen - 1) = "/" /\ At(file1, cwdlen) = NUL

\* C15 (as claimed): after every completed call the first cwdlen bytes of
\* file1 and of file2 are identical and are the committed cwd including
\* its trailing separator.
C15_BuffersInSync ==
  /\ SubSeq(file1, 1, cwdlen) = SubSeq(file2, 1, cwdlen)
  /\ SubSeq(file2, 1, cwdlen) = CommittedCwd

\* C15 (amended): after every completed call the first cwdlen-1 bytes of
\* file1 and of file2 are identical (the committed cwd without its
\* trailing separator) and the byte at cwdlen-1 is the separator or NUL in
\* either buffer; a resolve of a relative path returns a path that begins
\* with the cwd, separator included; after a successful vfs_chdir both
\* buffers hold the cwd with its separator.
C15_InSyncUpToSeparator ==
  /\ SubSeq(file1, 1, cwdlen - 1) = SubSeq(file2, 1, cwdlen - 1)
  /\ At(file1, cwdlen - 1) \in {"/", NUL}
  /\ At(file2, cwdlen - 1) \in {"/", NUL}
  /\ op \in ClientFacing =>
       \A i \in DOMAIN args :
         (PathAt(args[i], 0) # "/" /\ resolved[i] # NULLSTR) =>
           IsPrefix(CommittedCwd, resolved[i])
  /\ (op = "vfs_chdir" /\ ret = 0) =>
       /\ SubSeq(file1, 1, cwdlen) = CommittedCwd
       /\ SubSeq(file2, 1, cwdlen) = CommittedCwd

\* C15 witness: vfs_getcwd returned below the root and left NUL where
\* file2 has the cwd's trailing separator.
C15_Witness ==
  /\ op = "vfs_getcwd"
  /\ cwdlen > rootlen
  /\ At(file1, cwdlen - 1) = NUL
  /\ At(file2, cwdlen - 1) = "/"

\* C16: in vfs_rename the destination is resolved in file2 and leaves
\* file1 as the resolve of the source left it, so rename is called with
\* exactly the string abspath returned for the source and the string
\* abspath2 returned for the destination, each resolved against the cwd
\* committed before the call.
C16_RenameIndependent ==
  [][op' = "vfs_rename" =>
       /\ cwdlen' = cwdlen
       /\ file1' = abspath(rootlen, cwdlen, file1, args'[1]).buf
       /\ file2' = abspath2(rootlen, cwdlen, file2, args'[2]).buf
       /\ resolved'[1] = Returned(abspath(rootlen, cwdlen, file1, args'[1]))
       /\ resolved'[2] = Returned(abspath2(rootlen, cwdlen, file2, args'[2]))
       /\ fscalls' # <<>> =>
            /\ fscalls'[1].args[1] = resolved'[1]
            /\ fscalls'[1].args[2] = resolved'[2]
            /\ CStr(file1', 0) = resolved'[1]
            /\ CStr(file2', 0) = resolved'[2]]_vars

\* C16 witness: rename was called with two different resolved paths, the
\* source in file1 and the destination in file2.
C16_Witness ==
  /\ op = "vfs_rename"
  /\ fscalls # <<>>
  /\ fscalls[1].args[1] # fscalls[1].args[2]
  /\ CStr(file1, 0) = fscalls[1].args[1]
  /\ CStr(file2, 0) = fscalls[1].args[2]
  /\ cwdlen > rootlen

\* the path s with a separator behind it unless it ends with one
WithSeparator(s) == IF s[Len(s)] = "/" THEN s ELSE s \o <<"/">>

\* vfs_chdir resolved its path and the candidate has its separator: the
\* path ended with one, or there was room to append it
CandidateReady ==
  /\ op = "vfs_chdir"
  /\ resolved[1] # NULLSTR
  /\ resolved[1][Len(resolved[1])] = "/" \/ Len(resolved[1]) + 2 < Len(file1)

\* C17: once the candidate is resolved and separator-terminated, vfs_chdir
\* succeeds iff the candidate is rootlen long (stat is then not asked) or
\* stat reports a directory; on success cwdlen is the candidate's length
\* and file1 and file2 both hold the candidate, separator-terminated, with
\* NUL at index cwdlen.
C17_ChdirCommitRule ==
  CandidateReady =>
    /\ Len(WithSeparator(resolved[1])) = rootlen =>
         fscalls = <<>> /\ ret = 0
    /\ Len(WithSeparator(resolved[1])) # rootlen =>
         /\ fscalls = <<FsCall("stat", <<StripSlash(WithSeparator(resolved[1]))>>)>>
         /\ ret = 0 <=> answers[1]
    /\ ret = 0 =>
         /\ cwdlen = Len(WithSeparator(resolved[1]))
         /\ SubSeq(file1, 1, cwdlen) = WithSeparator(resolved[1])
         /\ SubSeq(file2, 1, cwdlen) = WithSeparator(resolved[1])
         /\ At(file1, cwdlen) = NUL /\ At(file2, cwdlen) = NUL
    /\ ret # 0 => ret = 1

\* C17 witness: vfs_chdir("/") committed the root without asking the
\* filesystem, and both buffers hold it.
C17_Witness ==
  /\ op = "vfs_chdir" /\ ret = 0
  /\ args[1] = <<"/">>
  /\ fscalls = <<>>
  /\ cwdlen = rootlen
  /\ CStr(file1, 0) = VFS_ROOT /\ CStr(file2, 0) = VFS_ROOT

\* C18: every operation other than vfs_chdir (the seven client-facing
\* resolves and vfs_getcwd), whatever its path and its outcome, leaves
\* cwdlen, rootlen, the committed cwd and the value vfs_getcwd returns
\* unchanged.
C18_OnlyChdirMovesCwd ==
  [][op' \in ClientFacing \cup {"vfs_getcwd"} =>
       /\ cwdlen' = cwdlen
       /\ rootlen' = rootlen
       /\ CommittedCwd' = CommittedCwd
       /\ GetcwdValue' = GetcwdValue]_vars

\* C18 witness: below the root vfs_open was given the absolute path "/b",
\* which points outside the cwd, and refused it.
C18_Witness ==
  /\ op = "vfs_open"
  /\ cwdlen > rootlen
  /\ args[1] = <<"/", "b">>
  /\ resolved[1] = NULLSTR
  /\ GetcwdValue # <<"/">>

\* every iteration of the loop at lines 106-107 removes a character
RECURSIVE StripProgress(_, _)
StripProgress(b, path) ==
  IF At(b, path) = "/" \/ (At(b, path) = "." /\ At(b, path + 1) = "/")
    THEN /\ strlen(memmove(b, path, path + 1, strlen(b, path + 1) + 1), path)
              < strlen(b, path)
         /\ StripProgress(memmove(b, path, path + 1, strlen(b, path + 1) + 1), path)
    ELSE TRUE

\* every iteration of the loop at lines 109-112 removes a character
RECURSIVE CollapseProgress(_, _, _)
CollapseProgress(b, path, from) ==
  LET pos == strstr(b, from, "/", "/")
      nb  == memmove(b, pos, pos + 1, strlen(b, pos + 1) + 1)
  IN IF pos = NULLPTR THEN TRUE
     ELSE strlen(nb, path) < strlen(b, path) /\ CollapseProgress(nb, path, pos)

\* one iteration of the loop at lines 114-133 with "/." found at pos:
\* the buffer and the scan position it leaves
DotsStep(b, path, pos) ==
  IF At(b, pos) = "/" /\ At(b, pos + 1) = "/"
    THEN [buf |-> memmove(b, pos, pos + 1, strlen(b, pos + 1) + 1), pos |-> pos]
  ELSE IF At(b, pos + 2) = NUL \/ At(b, pos + 2) = "/"
    THEN [buf |-> memmove(b, pos, pos + 2, strlen(b, pos + 2) + 1), pos |-> pos]
  ELSE IF At(b, pos + 2) = "." /\ (At(b, pos + 3) = NUL \/ At(b, pos + 3) = "/")
    THEN PopSegment(b, path, pos)
  ELSE [buf |-> b, pos |-> pos + 2]

\* the loop at lines 114-133 run step by step from scan position from:
\* the buffer it ends with, and whether every iteration removed a
\* character or left the buffer alone and moved the scan position forward
RECURSIVE DotsRun(_, _, _)
DotsRun(b, path, from) ==
  LET pos  == strstr(b, from, "/", ".")
      nxt  == DotsStep(b, path, pos)
      rest == DotsRun(nxt.buf, path, nxt.pos)
  IN IF pos = NULLPTR THEN [buf |-> b, ok |-> TRUE]
     ELSE [buf |-> rest.buf,
           ok  |-> /\ \/ strlen(nxt.buf, path) < strlen(b, path)
                      \/ nxt.buf = b /\ nxt.pos > from
                   /\ rest.ok]

\* every loop iteration of normalize_path(b) makes progress
LoopsProgress(b) ==
  /\ StripProgress(b, 0)
  /\ CollapseProgress(StripLeading(b, 0), 0, 0)
  /\ DotsRun(CollapseSlashes(StripLeading(b, 0), 0), 0, 0).ok
  /\ DotsRun(CollapseSlashes(StripLeading(b, 0), 0), 0, 0).buf = normalize_path(b, 0)

\* C19: normalize_path terminates and only shrinks its input: every loop
\* iteration removes a character or advances the scan position, the
\* output is not longer than the input, and no byte behind the input's
\* terminator is written.
C19_NormalizeShrinks ==
  [][ncalls' = ncalls + 1 =>
       /\ LoopsProgress(nbuf)
       /\ Len(nbuf') = Len(nbuf)
       /\ strlen(nbuf', 0) <= strlen(nbuf, 0)
       /\ SubSeq(nbuf', strend(nbuf, 0) + 2, Len(nbuf))
            = SubSeq(nbuf, strend(nbuf, 0) + 2, Len(nbuf))]_vars

\* C19 witness: normalize_path cut a fragment down to "a" and the bytes it
\* no longer uses still hold a "." of the input.
C19_Witness ==
  /\ ncalls = 1
  /\ nfirst = <<"a">>
  /\ \E i \in 2..(Len(nbuf) - 1) : At(nbuf, i) = "."


\* buffer b keeps its size and holds a terminator at or behind index cw,
\* so that a scan starting at the working directory or at the path
\* appended to it ends inside the buffer
Terminated(b, cw) ==
  /\ Len(b) = Capacity
  /\ cw < Capacity
  /\ strend(b, cw) < Capacity
  /\ \E i \in (cw - 1)..(Capacity - 1) : At(b, i) = NUL

\* the capacity test of abspath_ for argument p, resolved with the working
\* directory of length cw: a path that does not fit is refused, and a
\* path that fits is resolved unless it is an absolute path of a
\* client-facing operation, which has a refusal of its own
CapacityTest(o, cw, p, res) ==
  /\ cw + Len(p) + 1 > Capacity => res = NULLSTR
  /\ (cw + Len(p) + 1 <= Capacity /\ (o = "vfs_chdir" \/ PathAt(p, 0) # "/"))
       => res # NULLSTR

====
